---- MODULE Spec2Model ----
(***************************************************************************)
(* polymorph exec: resolve a template to a path in the per-version cache,  *)
(* exec it, and on ENOENT fetch the tool into a temporary directory,       *)
(* rename it to the version directory and exec again.                      *)
(*                                                                         *)
(* Several launcher processes share one cache directory.  A path is a      *)
(* sequence of segments relative to execCacheDir (<<>> is execCacheDir     *)
(* itself); the filesystem is the set of nodes below it.                   *)
(***************************************************************************)
EXTENDS Integers, Sequences, FiniteSets, TLC

\* Launcher processes that may run concurrently.
NumProcs == 2
\* Size of the pool of random suffixes os.MkdirTemp draws from.
NumSuffixes == 2

Procs == 1..NumProcs
Suffixes == {ToString(i) : i \in 1..NumSuffixes}

\* A nil *Fetcher (the template has no such table).
NoFetcher == [isNil |-> TRUE, url |-> <<>>]
NoPath == <<"?">>

----------------------------------------------------------------------------
(* package templates *)

Text(s) == [kind |-> "text", val |-> s]
Field(k) == [kind |-> "field", val |-> k]
Malformed == [kind |-> "bad", val |-> "{{"]

RECURSIVE Render(_, _)
Render(tokens, params) ==
    IF tokens = <<>> THEN ""
    ELSE LET t == Head(tokens)
             s == IF t.kind = "text" THEN t.val
                  ELSE IF t.val \in DOMAIN params THEN params[t.val]
                  ELSE "<no value>"
         IN  s \o Render(Tail(tokens), params)

\* text/template Parse then Execute over a map: a malformed action is a parse
\* error, a key the map lacks prints as "<no value>".
ExpandTemplate(templateString, params) ==
    IF \E i \in DOMAIN templateString : templateString[i].kind = "bad"
    THEN [err |-> TRUE, out |-> ""]
    ELSE [err |-> FALSE, out |-> Render(templateString, params)]

----------------------------------------------------------------------------
(* package path, on clean relative paths *)

Join(a, b) == a \o b

Base(p) == IF p = <<>> THEN "." ELSE p[Len(p)]

IsPrefix(d, p) == Len(d) <= Len(p) /\ SubSeq(p, 1, Len(d)) = d

Prefixes(p) == {SubSeq(p, 1, n) : n \in 0..Len(p)}

----------------------------------------------------------------------------
(* the filesystem below execCacheDir *)

DirNode(p, who) ==
    [path |-> p, kind |-> "dir", by |-> who, data |-> "", exec |-> TRUE]
FileNode(p, who, d, x) ==
    [path |-> p, kind |-> "file", by |-> who, data |-> d, exec |-> x]

Exists(f, p) == \E n \in f : n.path = p
IsDir(f, p) == \E n \in f : n.path = p /\ n.kind = "dir"
IsFile(f, p) == \E n \in f : n.path = p /\ n.kind = "file"
Under(f, p) == {n \in f : IsPrefix(p, n.path)}
Children(f, p) == {n \in f : IsPrefix(p, n.path) /\ n.path # p}

\* os.MkdirAll: creates the directory and every missing parent; fails when a
\* component exists and is not a directory.
MkdirAll(f, p, who) ==
    IF \E q \in Prefixes(p) : IsFile(f, q)
    THEN [err |-> "ENOTDIR", fs |-> f]
    ELSE [err |-> "nil",
          fs |-> f \cup {DirNode(q, who) : q \in {r \in Prefixes(p) : ~Exists(f, r)}}]

MkdirExisting(f, p, who) ==
    IF Exists(f, p) THEN [err |-> "nil", fs |-> f]
    ELSE IF ~IsDir(f, SubSeq(p, 1, Len(p) - 1)) THEN [err |-> "ENOENT", fs |-> f]
    ELSE [err |-> "nil", fs |-> f \cup {DirNode(p, who)}]

\* os.Mkdir of one directory (the step os.MkdirTemp repeats per candidate name).
Mkdir(f, p, who) ==
    IF Exists(f, p) THEN [err |-> "EEXIST", fs |-> f]
    ELSE IF ~IsDir(f, SubSeq(p, 1, Len(p) - 1)) THEN [err |-> "ENOENT", fs |-> f]
    ELSE [err |-> "nil", fs |-> f \cup {DirNode(p, who)}]

WriteFileWithParents(f, p, who, d, x) ==
    IF \E q \in Prefixes(p) : q # p /\ IsFile(f, q) THEN [err |-> "ENOTDIR", fs |-> f]
    ELSE IF IsDir(f, p) THEN [err |-> "EISDIR", fs |-> f]
    ELSE [err |-> "nil",
          fs |-> {n \in f : n.path # p}
                   \cup {DirNode(q, who) : q \in {r \in Prefixes(p) : r # p /\ ~Exists(f, r)}}
                   \cup {FileNode(p, who, d, x)}]

\* os.OpenFile(O_CREATE|O_WRONLY), io.Copy of `d`, Close: the file's content
\* after the three calls (`d` is "partial" when the copy stopped mid-stream).
WriteFile(f, p, who, d, x) ==
    IF ~IsDir(f, SubSeq(p, 1, Len(p) - 1)) THEN [err |-> "ENOENT", fs |-> f]
    ELSE IF IsDir(f, p) THEN [err |-> "EISDIR", fs |-> f]
    ELSE [err |-> "nil",
          fs |-> {n \in f : n.path # p} \cup {FileNode(p, who, d, x)}]

RemoveAllKeeping(f, p) == f

\* os.RemoveAll: removes the path and everything below it; nil when absent.
RemoveAll(f, p) == f \ Under(f, p)

Moved(n, old, new) ==
    [n EXCEPT !.path = new \o SubSeq(n.path, Len(old) + 1, Len(n.path))]

RenameOver(f, old, new) ==
    IF ~Exists(f, old) THEN [err |-> "ENOENT", fs |-> f]
    ELSE [err |-> "nil",
          fs |-> (f \ Under(f, old)) \cup {Moved(n, old, new) : n \in Under(f, old)}]

\* os.Rename of a directory (rename(2)): the target must be absent or an empty
\* directory, which is replaced; old and new being the same path is a no-op.
Rename(f, old, new) ==
    IF ~Exists(f, old) THEN [err |-> "ENOENT", fs |-> f]
    ELSE IF old = new THEN [err |-> "nil", fs |-> f]
    ELSE IF IsFile(f, new) THEN [err |-> "ENOTDIR", fs |-> f]
    ELSE IF Children(f, new) # {} THEN [err |-> "ENOTEMPTY", fs |-> f]
    ELSE IF IsPrefix(old, new) THEN [err |-> "EINVAL", fs |-> f]
    ELSE [err |-> "nil",
          fs |-> (f \ (Under(f, old) \cup Under(f, new)))
                   \cup {Moved(n, old, new) : n \in Under(f, old)}]

\* syscall.Exec: the errno, or "ok" when the process image is replaced.
SyscallExec(f, p) ==
    IF \E q \in Prefixes(p) : q # p /\ IsFile(f, q) THEN "ENOTDIR"
    ELSE IF ~Exists(f, p) THEN "ENOENT"
    ELSE LET n == CHOOSE m \in f : m.path = p
         IN  IF n.kind = "dir" \/ ~n.exec THEN "EACCES"
             ELSE IF n.data # "payload" THEN "ENOEXEC"
             ELSE "ok"

----------------------------------------------------------------------------
(* the template file and the server behind its URLs *)

Params == [version |-> "1"]
DirectoryPattern == <<Text("v"), Field("version")>>
UrlPattern == <<Text("https://example.test/tool-"), Field("version")>>
Aliases == [tool |-> <<"bin", "foo">>]

ExecTemplate(dir, tar, bin, readable) ==
    [name |-> "tool", directory |-> dir, params |-> Params,
     executables |-> Aliases, tarball |-> tar, binary |-> bin,
     readable |-> readable]

Fetcher(url) == [isNil |-> FALSE, url |-> url]

Templates ==
    { ExecTemplate(DirectoryPattern, Fetcher(UrlPattern), NoFetcher, TRUE),
      ExecTemplate(DirectoryPattern, NoFetcher, Fetcher(UrlPattern), TRUE),
      ExecTemplate(DirectoryPattern, Fetcher(UrlPattern), Fetcher(UrlPattern), TRUE),
      ExecTemplate(DirectoryPattern, NoFetcher, NoFetcher, TRUE),
      ExecTemplate(DirectoryPattern, Fetcher(<<Malformed>>), NoFetcher, TRUE),
      ExecTemplate(DirectoryPattern, NoFetcher, Fetcher(<<Malformed>>), TRUE),
      ExecTemplate(<<Malformed>>, Fetcher(UrlPattern), NoFetcher, TRUE),
      ExecTemplate(DirectoryPattern, Fetcher(UrlPattern), NoFetcher, FALSE) }

\* args[1] of the command line, as path segments.
ExecutableNames == { <<"foo">>, <<"usr", "tool">> }

Entry(name, flag, x) == [name |-> name, typeflag |-> flag, exec |-> x]

\* The tar streams the tarball URL may serve.
Archives ==
    { << Entry(<<"bin">>, "dir", TRUE), Entry(<<"bin", "foo">>, "reg", TRUE) >>,
      << Entry(<<"foo">>, "reg", FALSE) >>,
      << Entry(<<"foo">>, "reg", TRUE), Entry(<<"bin", "foo">>, "reg", TRUE) >>,
      << Entry(<<"foo">>, "symlink", TRUE) >> }

\* What http.Get hands back when the transport works: the status and the body.
Responses == { [status |-> "200", body |-> "payload"],
               [status |-> "404", body |-> "errorpage"] }

----------------------------------------------------------------------------
VARIABLES
    template,        \* the decoded template file
    archive,         \* the tar stream behind the tarball URL
    fs,              \* nodes below execCacheDir
    pc,              \* where each launcher is in runExec / the fetcher closure
    executableName,  \* args[1], the same on every command line
    tempDir,         \* the directory os.MkdirTemp returned
    tarIdx,          \* the next tar entry untar reads
    exitErr,         \* the error runExec returned: <<wrapper, cause>>
    httpGets,        \* calls of http.Get
    execAttempts,    \* calls of syscall.Exec
    fetchCalls,      \* calls of fetchFunc
    stderr           \* writers of os.Stderr, in order

vars == <<template, archive, fs, pc, executableName, tempDir, tarIdx, exitErr,
          httpGets, execAttempts, fetchCalls, stderr>>

NoError == <<"", "nil">>

Init ==
    /\ template \in Templates
    /\ archive \in Archives
    /\ template.tarball.isNil => archive = << Entry(<<"foo">>, "symlink", TRUE) >>
    /\ fs = {}
    /\ pc = [p \in Procs |-> "idle"]
    /\ executableName \in ExecutableNames
    /\ tempDir = [p \in Procs |-> NoPath]
    /\ tarIdx = [p \in Procs |-> 0]
    /\ exitErr = [p \in Procs |-> NoError]
    /\ httpGets = [p \in Procs |-> 0]
    /\ execAttempts = [p \in Procs |-> 0]
    /\ fetchCalls = [p \in Procs |-> 0]
    /\ stderr = [p \in Procs |-> <<>>]

----------------------------------------------------------------------------
(* getConfig *)

ExecCacheDir == <<>>

Directory == ExpandTemplate(template.directory, template.params)

\* path.Join(execCacheDir, directory): an empty element is dropped.
VersionedCacheDir ==
    Join(ExecCacheDir, IF Directory.out = "" THEN <<>> ELSE <<Directory.out>>)

ExecutableBase(name) == Base(name)

ExecutableUnaliased(name) == <<ExecutableBase(name)>>

Executable(name) ==
    IF ExecutableBase(name) \in DOMAIN template.executables
    THEN template.executables[ExecutableBase(name)]
    ELSE <<ExecutableBase(name)>>

ExecPath(name) == Join(VersionedCacheDir, Executable(name))

GetConfigErr ==
    IF ~template.readable THEN "error reading template"
    ELSE IF Directory.err THEN "error expanding directory template"
    ELSE "nil"

----------------------------------------------------------------------------
(* execCmd.Run and runExec *)

ExitOrRetry(p, wrapper, cause, out) ==
    /\ pc' = [pc EXCEPT ![p] = IF wrapper = "error fetching" THEN "exec2" ELSE "exited"]
    /\ exitErr' = [exitErr EXCEPT ![p] = <<wrapper, cause>>]
    /\ stderr' = [stderr EXCEPT ![p] = @ \o out \o <<"execCmd.Run">>]

\* runExec returns the error <<wrapper, cause>> after `out` went to os.Stderr:
\* Run prints the error to os.Stderr and calls os.Exit(1).
Exit(p, wrapper, cause, out) ==
    /\ pc' = [pc EXCEPT ![p] = "exited"]
    /\ exitErr' = [exitErr EXCEPT ![p] = <<wrapper, cause>>]
    /\ stderr' = [stderr EXCEPT ![p] = @ \o out \o <<"execCmd.Run">>]

\* runExec goes on to `next` after `out` went to os.Stderr.
Goto(p, next, out) ==
    /\ pc' = [pc EXCEPT ![p] = next]
    /\ stderr' = [stderr EXCEPT ![p] = @ \o out]
    /\ UNCHANGED exitErr

IsAnyFailure(errno) == errno # "ok"

\* errors.Is(err, syscall.ENOENT)
IsENOENT(errno) == errno = "ENOENT"

FetchRegardless(errno) == IF ~IsENOENT(errno) /\ errno # "ok" THEN "exited" ELSE "fetch"

\* Where runExec goes when the first syscall.Exec answers `errno`: the process
\* image is replaced, or the error is returned unless it is ENOENT.
AfterFirstExec(errno) ==
    IF errno = "ok" THEN "replaced"
    ELSE IF ~IsENOENT(errno) THEN "exited"
    ELSE "fetch"

\* getConfig, then the first syscall.Exec.
FirstExec(p) ==
    /\ pc[p] = "idle"
    /\ IF GetConfigErr # "nil"
       THEN /\ Exit(p, "", GetConfigErr, <<>>)
            /\ UNCHANGED execAttempts
       ELSE /\ execAttempts' = [execAttempts EXCEPT ![p] = @ + 1]
            /\ LET errno == SyscallExec(fs, ExecPath(executableName))
               IN  IF AfterFirstExec(errno) = "exited"
                   THEN Exit(p, "error executing", errno, <<>>)
                   ELSE Goto(p, AfterFirstExec(errno), <<>>)
    /\ UNCHANGED <<template, archive, fs, executableName, tempDir, tarIdx,
                   httpGets, fetchCalls>>

RetryAfterExec(errno) ==
    IF errno = "ok" THEN "replaced" ELSE IF IsENOENT(errno) THEN "fetch" ELSE "exited"

\* Where runExec goes when the syscall.Exec after the fetch answers `errno`:
\* every error is returned.
AfterSecondExec(errno) == IF errno = "ok" THEN "replaced" ELSE "exited"

\* The syscall.Exec after a fetch that returned nil.
SecondExec(p) ==
    /\ pc[p] = "exec2"
    /\ execAttempts' = [execAttempts EXCEPT ![p] = @ + 1]
    /\ LET errno == SyscallExec(fs, ExecPath(executableName))
       IN  IF AfterSecondExec(errno) = "exited"
           THEN Exit(p, "error executing", errno, <<>>)
           ELSE Goto(p, AfterSecondExec(errno), <<>>)
    /\ UNCHANGED <<template, archive, fs, executableName, tempDir, tarIdx,
                   httpGets, fetchCalls>>

----------------------------------------------------------------------------
(* the fetcher closure of getConfig *)

CleanupTarget(p) == VersionedCacheDir

\* The path of `defer os.RemoveAll(tempDir)`.
CleanupPath(p) == tempDir[p]

\* The closure returns `err` out of file system `f`, `out` having gone to
\* os.Stderr: the deferred RemoveAll runs, then runExec goes on to the second
\* exec or returns the wrapped error.
FetchReturn(p, f, err, out) ==
    /\ fs' = RemoveAll(f, CleanupPath(p))
    /\ IF err = "nil" THEN Goto(p, "exec2", out)
       ELSE Exit(p, "error fetching", err, out)

\* The closure goes on to `next` in file system `f`.
FetchGoto(p, f, next, out) ==
    /\ fs' = f
    /\ Goto(p, next, out)

\* fetchFunc is called: os.MkdirAll(execCacheDir).  A failure returns before
\* the defer is registered.
MkdirCache(p) ==
    /\ pc[p] = "fetch"
    /\ fetchCalls' = [fetchCalls EXCEPT ![p] = @ + 1]
    /\ \E io \in {"nil", "EIO"} :
        LET r == MkdirAll(fs, ExecCacheDir, 0)
        IN  IF io # "nil" \/ r.err # "nil"
            THEN /\ Exit(p, "error fetching", "error creating cache dir", <<>>)
                 /\ UNCHANGED fs
            ELSE FetchGoto(p, r.fs, "mkdirtemp", <<>>)
    /\ UNCHANGED <<template, archive, executableName, tempDir, tarIdx, httpGets,
                   execAttempts>>

TempNameInPlace(dir, pattern, suffix) == Join(dir, <<pattern>>)

\* The name os.MkdirTemp(dir, pattern) tries: the pattern (which holds no "*")
\* followed by a random string.
TempName(dir, pattern, suffix) == Join(dir, <<pattern \o suffix>>)

\* os.MkdirTemp(execCacheDir, directory): tries random names until Mkdir does
\* not answer EEXIST, and gives up when every try does.
MkdirTemp(p) ==
    /\ pc[p] = "mkdirtemp"
    /\ \E io \in {"nil", "EIO"}, s \in Suffixes :
        LET name == TempName(ExecCacheDir, Directory.out, s)
            r == Mkdir(fs, name, p)
            taken == \A t \in Suffixes :
                        Exists(fs, TempName(ExecCacheDir, Directory.out, t))
        IN  IF io # "nil" \/ taken \/ r.err \notin {"nil", "EEXIST"}
            THEN /\ Exit(p, "error fetching", "error creating temporary directory", <<>>)
                 /\ UNCHANGED <<fs, tempDir>>
            ELSE /\ r.err = "nil"
                 /\ tempDir' = [tempDir EXCEPT ![p] = name]
                 /\ FetchGoto(p, r.fs, "dispatch", <<>>)
    /\ UNCHANGED <<template, archive, executableName, tarIdx, httpGets,
                   execAttempts, fetchCalls>>

\* default: neither fetcher is set.
DispatchDefault(p) ==
    /\ pc[p] = "dispatch"
    /\ template.tarball.isNil
    /\ template.binary.isNil
    /\ FetchReturn(p, fs, "no fetcher specified", <<>>)
    /\ UNCHANGED <<template, archive, executableName, tempDir, tarIdx, httpGets,
                   execAttempts, fetchCalls>>

----------------------------------------------------------------------------
(* package tarball *)

\* case execTemplate.TarballFetcher != nil: tarball.Fetch up to its call of
\* untar.  The URL is expanded, the download is announced on os.Stderr,
\* http.Get is called and gzip.NewReader reads the header of the body.  The
\* status of the response is not looked at; a body that is no gzip stream
\* fails at the gzip header.
TarballFetch(p) ==
    /\ pc[p] = "dispatch"
    /\ ~template.tarball.isNil
    /\ IF ExpandTemplate(template.tarball.url, template.params).err
       THEN /\ FetchReturn(p, fs, "error expanding tarball fetch url template", <<>>)
            /\ UNCHANGED <<httpGets, tarIdx>>
       ELSE /\ httpGets' = [httpGets EXCEPT ![p] = @ + 1]
            /\ \/ /\ FetchReturn(p, fs, "error downloading tarball", <<"tarball.Fetch">>)
                  /\ UNCHANGED tarIdx
               \/ \E resp \in Responses :
                    IF resp.body # "payload"
                    THEN /\ FetchReturn(p, fs, "error creating gzip reader",
                                        <<"tarball.Fetch">>)
                         /\ UNCHANGED tarIdx
                    ELSE /\ tarIdx' = [tarIdx EXCEPT ![p] = 1]
                         /\ FetchGoto(p, fs, "untar", <<"tarball.Fetch">>)
    /\ UNCHANGED <<template, archive, executableName, tempDir, execAttempts,
                   fetchCalls>>

TargetInVersionDir(dir, name) == Join(VersionedCacheDir, name)

\* target := path.Join(dir, header.Name)
Target(dir, name) == Join(dir, name)

\* One entry of untar's loop written below `dir`: the file system and error.
\* `io` is "nil", or the failure of io.Copy in the middle of a file.
UntarEntry(f, dir, header, who, io) ==
    LET target == Target(dir, header.name)
    IN  CASE header.typeflag = "dir" ->
               LET r == MkdirAll(f, target, who)
               IN  [fs |-> r.fs,
                    err |-> IF r.err = "nil" THEN "nil" ELSE "error creating directory"]
          [] header.typeflag = "reg" ->
               LET r == WriteFile(f, target, who,
                                  IF io = "nil" THEN "payload" ELSE "partial",
                                  header.exec)
               IN  [fs |-> r.fs,
                    err |-> IF r.err # "nil" THEN "error creating file"
                            ELSE IF io # "nil" THEN "error writing file"
                            ELSE "nil"]
          [] OTHER -> [fs |-> f, err |-> "nil"]

\* One turn of untar's loop: tarReader.Next, then the entry.  After the last
\* entry Next answers io.EOF, untar and tarball.Fetch return nil.
Untar(p) ==
    /\ pc[p] = "untar"
    /\ tarIdx[p] <= Len(archive)
    /\ \/ /\ FetchReturn(p, fs, "error reading tarball", <<>>)
          /\ UNCHANGED tarIdx
       \/ \E io \in {"nil", "EIO"} :
            LET r == UntarEntry(fs, tempDir[p], archive[tarIdx[p]], p, io)
            IN  /\ io = "nil" \/ archive[tarIdx[p]].typeflag = "reg"
                /\ IF r.err # "nil"
                   THEN /\ FetchReturn(p, r.fs, r.err, <<>>)
                        /\ UNCHANGED tarIdx
                   ELSE /\ tarIdx' = [tarIdx EXCEPT ![p] = @ + 1]
                        /\ FetchGoto(p, r.fs,
                                     IF tarIdx[p] = Len(archive) THEN "rename" ELSE "untar",
                                     <<>>)
    /\ UNCHANGED <<template, archive, executableName, tempDir, httpGets,
                   execAttempts, fetchCalls>>

----------------------------------------------------------------------------
(* package binary *)

\* case execTemplate.BinaryFetcher != nil: binary.Fetch.  The URL is expanded,
\* the file is created in tempDir, the download is announced on os.Stderr,
\* http.Get is called and the body is copied into the file.  The status of the
\* response is not looked at.
BinaryFetch(p) ==
    /\ pc[p] = "dispatch"
    /\ template.tarball.isNil
    /\ ~template.binary.isNil
    /\ LET filePath == Join(tempDir[p], <<ExecutableBase(executableName)>>)
           opened == WriteFile(fs, filePath, p, "empty", TRUE)
       IN  IF ExpandTemplate(template.binary.url, template.params).err
           THEN /\ FetchReturn(p, fs, "error expanding binary fetch url template", <<>>)
                /\ UNCHANGED httpGets
           ELSE \/ /\ FetchReturn(p, fs, "error opening file", <<>>)
                   /\ UNCHANGED httpGets
                \/ /\ opened.err = "nil"
                   /\ httpGets' = [httpGets EXCEPT ![p] = @ + 1]
                   /\ \/ FetchReturn(p, opened.fs, "error downloading binary",
                                     <<"binary.Fetch">>)
                      \/ \E resp \in Responses, io \in {"nil", "EIO"} :
                            LET r == WriteFile(opened.fs, filePath, p,
                                               IF io = "nil" THEN resp.body ELSE "partial",
                                               TRUE)
                            IN  IF io # "nil"
                                THEN FetchReturn(p, r.fs, "error writing to file",
                                                 <<"binary.Fetch">>)
                                ELSE FetchGoto(p, r.fs, "rename", <<"binary.Fetch">>)
    /\ UNCHANGED <<template, archive, executableName, tempDir, tarIdx,
                   execAttempts, fetchCalls>>

----------------------------------------------------------------------------
(* the fetcher closure, after the fetch *)

\* return os.Rename(tempDir, versionedCacheDir)
Publish(p) ==
    /\ pc[p] = "rename"
    /\ LET r == Rename(fs, tempDir[p], VersionedCacheDir)
       IN  FetchReturn(p, r.fs, r.err, <<>>)
    /\ UNCHANGED <<template, archive, executableName, tempDir, tarIdx, httpGets,
                   execAttempts, fetchCalls>>

Next ==
    \E p \in Procs :
        \/ FirstExec(p)
        \/ MkdirCache(p)
        \/ MkdirTemp(p)
        \/ DispatchDefault(p)
        \/ TarballFetch(p)
        \/ Untar(p)
        \/ BinaryFetch(p)
        \/ Publish(p)
        \/ SecondExec(p)

Spec == Init /\ [][Next]_vars

----------------------------------------------------------------------------
(* what the claims speak of *)

V == VersionedCacheDir

\* The nodes below `dir`, with their paths relative to it.
Tree(f, dir) ==
    {[n EXCEPT !.path = SubSeq(n.path, Len(dir) + 1, Len(n.path))] : n \in Under(f, dir)}

Scratch == <<"scratch">>

RECURSIVE Extract(_, _, _, _)
Extract(f, dir, entries, who) ==
    IF entries = <<>> THEN [fs |-> f, err |-> "nil"]
    ELSE LET r == UntarEntry(f, dir, Head(entries), who, "nil")
         IN  IF r.err # "nil" THEN r ELSE Extract(r.fs, dir, Tail(entries), who)

\* The trees a fetch by `who` that returns nil can have built: the whole
\* archive, or the one file holding the whole body of a response.
CompleteOutputs(who) ==
    IF ~template.tarball.isNil
    THEN LET r == Extract({DirNode(Scratch, who)}, Scratch, archive, who)
         IN  IF r.err = "nil" THEN {Tree(r.fs, Scratch)} ELSE {}
    ELSE IF ~template.binary.isNil
    THEN {Tree({DirNode(Scratch, who),
                FileNode(Join(Scratch, <<ExecutableBase(executableName)>>), who,
                         resp.body, TRUE)}, Scratch) : resp \in Responses}
    ELSE {}

InFetch(p) == pc[p] \in {"fetch", "mkdirtemp", "dispatch", "untar", "rename"}

Stepped(p) == pc'[p] # pc[p] \/ tarIdx'[p] # tarIdx[p]

FetchFailed(p) == pc[p] = "exited" /\ exitErr[p][1] = "error fetching"

RenameErrnos == {"ENOTEMPTY", "ENOENT", "ENOTDIR", "EINVAL"}

\* The fetch of p downloaded everything and called os.Rename.
RenameTried(p) ==
    /\ fetchCalls[p] >= 1
    /\ \/ pc[p] \in {"exec2", "replaced"}
       \/ pc[p] = "exited" /\ exitErr[p][1] = "error executing"
       \/ FetchFailed(p) /\ exitErr[p][2] \in RenameErrnos

\* C1: whenever the version directory exists, its tree is the complete output
\* of one fetch that returned nil: no state shows it partly written.
C1_VersionDirAbsentOrComplete ==
    Exists(fs, V) => \E p \in Procs : Tree(fs, V) \in CompleteOutputs(p)

\* C1 witness: the version directory is published and populated while another
\* launcher is in the middle of extracting into its temporary directory.
C1_Witness ==
    /\ Children(fs, V) # {}
    /\ \E q \in Procs : pc[q] = "untar" /\ tarIdx[q] > 1 /\ Children(fs, tempDir[q]) # {}

\* C2 (as claimed): of two launchers whose fetches both downloaded everything
\* and called os.Rename, neither fetch returned an error.  The executable is
\* in the published directory, so both launchers missed before the directory
\* was published: their fetches ran concurrently.
C2_BothFetchesReturnNil ==
    \A p, q \in Procs :
        (/\ p # q /\ RenameTried(p) /\ RenameTried(q)
         /\ SyscallExec(fs, ExecPath(executableName)) # "ENOENT")
        => ~FetchFailed(p) /\ ~FetchFailed(q)

\* C3: once two launchers have both downloaded and called os.Rename, the
\* version directory exists and its tree is the complete output of one fetch
\* that called os.Rename, every node of it written by that one launcher.
C3_RaceLeavesOneCompleteOutput ==
    \A p, q \in Procs :
        (p # q /\ RenameTried(p) /\ RenameTried(q)) =>
            /\ Exists(fs, V)
            /\ \E r \in Procs : RenameTried(r) /\ Tree(fs, V) \in CompleteOutputs(r)

\* C3 witness: two launchers both called os.Rename, one of them losing to a
\* populated version directory.
C3_Witness ==
    \E p, q \in Procs :
        /\ p # q /\ RenameTried(p) /\ RenameTried(q)
        /\ exitErr[q] = <<"error fetching", "ENOTEMPTY">>
        /\ Children(fs, V) # {}

\* C4: a step of the fetch routine other than the one on which it returns nil
\* (which is every step of a fetch that fails, the failing one included) leaves
\* the version directory and all below it as they were.
C4_FailedFetchLeavesVersionDir ==
    [][\A p \in Procs :
         (InFetch(p) /\ Stepped(p) /\ pc'[p] # "exec2") => Under(fs', V) = Under(fs, V)]_vars

\* C4 witness: a fetch was cut off in the middle of a file and the version
\* directory, absent before, is absent.
C4_Witness ==
    \E p \in Procs :
        /\ FetchFailed(p)
        /\ exitErr[p][2] \in {"error writing file", "error writing to file"}
        /\ ~Exists(fs, V)

\* C5: when the fetch routine has returned an error, nothing that fetch wrote
\* is left below the cache directory: its temporary directory is gone.
C5_TempDirGoneOnError ==
    \A p \in Procs : FetchFailed(p) => \A n \in fs : n.by # p

\* C5 witness: a fetch that had created its temporary directory returned an
\* error from its rename, and the directory is gone.
C5_Witness ==
    \E p \in Procs :
        /\ FetchFailed(p)
        /\ exitErr[p][2] = "ENOTEMPTY"
        /\ tempDir[p] # NoPath
        /\ ~Exists(fs, tempDir[p])

\* C6: a launcher calls the fetch at most once and syscall.Exec at most twice,
\* and after its second exec it is replaced or has exited: a not-found on the
\* retried exec is fatal and starts no second fetch.
C6_SingleRetry ==
    \A p \in Procs :
        /\ fetchCalls[p] <= 1
        /\ execAttempts[p] <= 2
        /\ execAttempts[p] = 2 => pc[p] \in {"replaced", "exited"}

\* C6 witness: the exec retried after a fetch that returned nil failed with
\* ENOENT and the launcher exited after one fetch and two execs.
C6_Witness ==
    \E p \in Procs :
        /\ pc[p] = "exited"
        /\ exitErr[p] = <<"error executing", "ENOENT">>
        /\ fetchCalls[p] = 1
        /\ execAttempts[p] = 2

\* C7: when the first exec of a launcher fails with an errno other than
\* ENOENT, that step ends the launcher with that error, and the launcher has
\* called no fetch and no http.Get and left the cache directory as it was.
C7_OtherExecFailureIsFatal ==
    [][\A p \in Procs :
         (/\ pc[p] = "idle"
          /\ Stepped(p)
          /\ GetConfigErr = "nil"
          /\ SyscallExec(fs, ExecPath(executableName)) \notin {"ok", "ENOENT"})
         => /\ pc'[p] = "exited"
            /\ exitErr'[p] = <<"error executing", SyscallExec(fs, ExecPath(executableName))>>
            /\ fetchCalls'[p] = 0
            /\ httpGets'[p] = 0
            /\ fs' = fs]_vars

\* C7 witness: a launcher exited on its first exec with EACCES or ENOEXEC.
C7_Witness ==
    \E p \in Procs :
        /\ pc[p] = "exited"
        /\ exitErr[p][1] = "error executing"
        /\ exitErr[p][2] \in {"EACCES", "ENOEXEC"}
        /\ execAttempts[p] = 1
        /\ fetchCalls[p] = 0

\* C8 (as claimed): the body of a response whose status is not a success is
\* never installed below the version directory.
C8_ErrorBodyNeverInstalled ==
    \A n \in Under(fs, V) : n.data # "errorpage"

\* C9: once a launcher that fetched has been replaced by the target program,
\* the first exec of any other launcher replaces it too, with no fetch, no
\* http.Get and the cache directory unchanged.
C9_CachedCopyIsReused ==
    [][\A q \in Procs :
         (/\ pc[q] = "idle"
          /\ Stepped(q)
          /\ \E p \in Procs : pc[p] = "replaced" /\ fetchCalls[p] = 1)
         => /\ pc'[q] = "replaced"
            /\ fetchCalls'[q] = 0
            /\ httpGets'[q] = 0
            /\ fs' = fs]_vars

\* C9 witness: one launcher missed, fetched and was replaced; another was
\* replaced on its first exec without fetching.
C9_Witness ==
    \E p, q \in Procs :
        /\ pc[p] = "replaced" /\ fetchCalls[p] = 1 /\ execAttempts[p] = 2
        /\ pc[q] = "replaced" /\ fetchCalls[q] = 0 /\ execAttempts[q] = 1
        /\ httpGets[q] = 0

\* C10 (as claimed): under a template that sets both the tarball and the
\* binary fetcher no launcher calls http.Get and nothing is published.
C10_BothFetchersRejected ==
    (~template.tarball.isNil /\ ~template.binary.isNil) =>
        /\ \A p \in Procs : httpGets[p] = 0
        /\ ~Exists(fs, V)

NeitherFetcher == template.tarball.isNil /\ template.binary.isNil

\* C11: under a template that sets neither fetcher no launcher ever calls
\* http.Get, the version directory never exists, and a fetch that got its
\* temporary directory and left the dispatch has returned "no fetcher
\* specified" with nothing it created left below the cache directory.
C11_NoFetcherSpecified ==
    NeitherFetcher =>
        /\ ~Exists(fs, V)
        /\ \A p \in Procs :
            /\ httpGets[p] = 0
            /\ pc[p] \notin {"untar", "rename", "exec2", "replaced"}
            /\ (tempDir[p] # NoPath /\ pc[p] # "dispatch") =>
                /\ pc[p] = "exited"
                /\ exitErr[p] = <<"error fetching", "no fetcher specified">>
                /\ \A n \in fs : n.by # p

\* C11 witness: a launcher missed, created its temporary directory and came
\* back from the dispatch with "no fetcher specified".
C11_Witness ==
    /\ NeitherFetcher
    /\ \E p \in Procs :
        /\ exitErr[p] = <<"error fetching", "no fetcher specified">>
        /\ execAttempts[p] = 1
        /\ tempDir[p] # NoPath
        /\ ~Exists(fs, tempDir[p])

BothFetchers == ~template.tarball.isNil /\ ~template.binary.isNil

\* C12 (as claimed): under a template that sets neither fetcher or both, no
\* launcher is ever replaced by the target program: the process image is
\* never handed over by syscall.Exec, whatever the cache holds.
C12_BadFetchSpecNeverExecs ==
    (NeitherFetcher \/ BothFetchers) => \A p \in Procs : pc[p] # "replaced"

C14_FailedFetchIsFatal ==
    \A p \in Procs :
        exitErr[p][1] = "error fetching" =>
            /\ pc[p] = "exited"
            /\ fetchCalls[p] = 1
            /\ execAttempts[p] = 1

\* C14 witness: the download of a launcher that missed failed in transport
\* and the launcher exited after its single exec.
C14_Witness ==
    \E p \in Procs :
        /\ pc[p] = "exited"
        /\ exitErr[p][1] = "error fetching"
        /\ exitErr[p][2] \in {"error downloading tarball", "error downloading binary"}
        /\ httpGets[p] = 1
        /\ execAttempts[p] = 1

\* C15 (as claimed): a launcher that has exited with an error wrote exactly
\* one message to os.Stderr and execCmd.Run wrote it: nothing reached
\* os.Stderr from getConfig, the fetcher closure, tarball.Fetch or
\* binary.Fetch.
C15_OneMessageByRun ==
    \A p \in Procs : pc[p] = "exited" => stderr[p] = <<"execCmd.Run">>

\* The last segment of the requested name.
RequestedBase == executableName[Len(executableName)]

\* C16: a launcher is replaced by the target program only when an executable
\* file is at the version directory joined with the alias of the requested
\* name's last segment, if the template's table has that key, and with the
\* last segment itself if not: that is the path the launcher execs.
C16_ExecPathGoesThroughAliases ==
    \A p \in Procs :
        pc[p] = "replaced" =>
            IF RequestedBase \in DOMAIN template.executables
            THEN SyscallExec(fs, V \o template.executables[RequestedBase]) = "ok"
            ELSE SyscallExec(fs, V \o <<RequestedBase>>) = "ok"

\* C16 witness: the request usr/tool, whose last segment the table maps to
\* bin/foo, was exec'ed from bin/foo in the version directory, where no file
\* named tool exists.
C16_Witness ==
    \E p \in Procs :
        /\ pc[p] = "replaced"
        /\ executableName = <<"usr", "tool">>
        /\ IsFile(fs, V \o <<"bin", "foo">>)
        /\ ~Exists(fs, V \o <<"tool">>)

\* C17 (as claimed): under a template with the binary fetcher only, when the
\* fetch of a launcher has returned nil a file is at the path the launcher
\* execs next, whatever the alias table maps the requested name to.
C17_BinaryFetchInstallsExecPath ==
    (template.tarball.isNil /\ ~template.binary.isNil) =>
        \A p \in Procs : pc[p] = "exec2" => IsFile(fs, ExecPath(executableName))

\* The fetch of p has its temporary directory and has not returned.
HoldsTempDir(p) == pc[p] \in {"dispatch", "untar", "rename"}

\* C18: the temporary directory of a fetch in progress is a direct child of
\* the cache directory, is not the version directory nor below it, and is not
\* the temporary directory of another fetch in progress; all the fetch has
\* written is below it and nothing below it was written by another launcher.
C18_TempDirIsPrivate ==
    \A p \in Procs :
        HoldsTempDir(p) =>
            /\ IsDir(fs, tempDir[p])
            /\ Len(tempDir[p]) = Len(ExecCacheDir) + 1
            /\ IsPrefix(ExecCacheDir, tempDir[p])
            /\ ~IsPrefix(V, tempDir[p])
            /\ \A q \in Procs \ {p} : HoldsTempDir(q) => tempDir[q] # tempDir[p]
            /\ \A n \in fs : n.by = p <=> IsPrefix(tempDir[p], n.path)

\* C18 witness: two fetches are in progress at once, each with entries in its
\* own temporary directory.
C18_Witness ==
    \E p, q \in Procs :
        /\ p # q
        /\ HoldsTempDir(p) /\ HoldsTempDir(q)
        /\ Children(fs, tempDir[p]) # {}
        /\ Children(fs, tempDir[q]) # {}
        /\ tempDir[p] # tempDir[q]

\* Entry i of the archive is a regular file in a directory that no earlier
\* directory entry names or lies below.
MissingParent(i) ==
    LET name == archive[i].name
        parent == SubSeq(name, 1, Len(name) - 1)
    IN  /\ archive[i].typeflag = "reg"
        /\ parent # <<>>
        /\ \A j \in 1..(i - 1) :
            ~(archive[j].typeflag = "dir" /\ IsPrefix(parent, archive[j].name))

\* C19: while untar runs, the regular files in the temporary directory are
\* those of the entries before the one it reads next; and when the archive
\* has a regular file whose parent directory no earlier entry created, untar
\* never gets past that entry, no fetch reaches the rename, the version
\* directory is never published, and a fetch that failed on the entry left
\* nothing it extracted behind.
C19_MissingParentAbortsInstall ==
    ~template.tarball.isNil =>
        \A p \in Procs :
            /\ pc[p] = "untar" =>
                \A j \in 1..Len(archive) :
                    archive[j].typeflag = "reg" =>
                        (IsFile(fs, tempDir[p] \o archive[j].name) <=> j < tarIdx[p])
            /\ \A i \in 1..Len(archive) :
                MissingParent(i) =>
                    /\ tarIdx[p] <= i
                    /\ pc[p] \notin {"rename", "exec2", "replaced"}
                    /\ ~Exists(fs, V)
                    /\ exitErr[p][2] = "error creating file" =>
                        /\ tarIdx[p] = i
                        /\ \A n \in fs : n.by # p

\* C19 witness: untar extracted the first entry, failed to create the second,
\* a file in a directory the archive never made, and the fetch returned the
\* error with its temporary directory removed.
C19_Witness ==
    \E p \in Procs :
        /\ Len(archive) >= 2
        /\ MissingParent(2)
        /\ pc[p] = "exited"
        /\ exitErr[p] = <<"error fetching", "error creating file">>
        /\ tarIdx[p] = 2
        /\ tempDir[p] # NoPath
        /\ ~Exists(fs, tempDir[p])
        /\ ~Exists(fs, V)

====
